---- MODULE Spec2Model ----
(***************************************************************************)
(* A model of the XBRL statement extraction engine of SEC_Data_Fetcher     *)
(* (src/xbrl_parser.py): role classification, instance parsing, linkbase   *)
(* parsing, merge, statement assembly and the Excel export entry points.   *)
(*                                                                         *)
(* Strings are TLA+ strings; SubSeq, Len and \o act on them characterwise. *)
(* Dates are ISO "YYYY-MM-DD" texts in the program, whose string order is  *)
(* calendar order; the model writes them as small integers.               *)
(* Numeric texts are strings over TextAlphabet, and float() is modelled on *)
(* exactly that alphabet, so every parsed value is an integer.             *)
(***************************************************************************)
EXTENDS Integers, Sequences, FiniteSets, TLC

VARIABLES
    remote,      \* the filing as the server holds and serves it (the input)
    pc,          \* position inside parse_xbrl_to_excel / extract_excel_bytes
    files,       \* the filing index returned by get_filing_index
    facts,       \* rows of facts_df, in document order
    pre_map,     \* parse_presentation's result: statement -> list of nodes
    cal_map,     \* parse_calculation's result: statement -> set of concepts
    merged,      \* merge_concept_maps' result (statements_concepts)
    statements,  \* distribute_statements' result: statement -> table
    done,        \* the steps of extract_excel_bytes that have returned
    output,      \* <<workbook>> once extract_excel_bytes returned it, else <<>>
    error,       \* [at, exc]: the exception that left the call, exc "none" if none
    disk,        \* <<workbook>> once written to output_path, else <<>>
    role_uri,    \* classify_role's argument in the classification runs
    rules,       \* the module-level list STATEMENT_RULES (a mutable list)
    calls        \* the classify_role calls made so far: [pass, result]

vars == <<remote, pc, files, facts, pre_map, cal_map, merged, statements,
          done, output, error, disk, role_uri, rules, calls>>

\* Bounds of the model
MaxArcs == 3       \* presentationArc elements in a generated role block
MaxBlocks == 3     \* presentationLink blocks in a generated linkbase
MaxCalls == 3      \* classify_role calls on one role identifier
MaxElems == 2      \* elements with a contextRef in an instance document
MaxTextLen == 3    \* characters in a generated numeric text

\* Python's None
None == "None"

-----------------------------------------------------------------------------
(* String helpers: what str.lower, str.replace, "in", endswith and split do *)

Char(s, i) == SubSeq(s, i, i)

UpperLetters == "ABCDEFGHIJKLMNOPQRSTUVWXYZ"
LowerLetters == "abcdefghijklmnopqrstuvwxyz"

\* the lower case letter of each upper case letter
ToLower == [u \in {Char(UpperLetters, i) : i \in 1..26} |->
               Char(LowerLetters, CHOOSE i \in 1..26 : Char(UpperLetters, i) = u)]

\* str.lower() on one character
LowerChar(c) == IF c \in DOMAIN ToLower THEN ToLower[c] ELSE c

RECURSIVE StrLower(_)
StrLower(s) ==
    IF Len(s) = 0 THEN ""
    ELSE LowerChar(Char(s, 1)) \o StrLower(SubSeq(s, 2, Len(s)))

\* s.replace(c, "") for a one-character c
RECURSIVE StrRemove(_, _)
StrRemove(s, c) ==
    IF Len(s) = 0 THEN ""
    ELSE (IF Char(s, 1) = c THEN "" ELSE Char(s, 1))
             \o StrRemove(SubSeq(s, 2, Len(s)), c)

\* kw in s
StrContains(s, kw) ==
    \E i \in 1..(Len(s) - Len(kw) + 1) : SubSeq(s, i, i + Len(kw) - 1) = kw

\* s.endswith(suffix)
StrEndsWith(s, suffix) ==
    /\ Len(suffix) <= Len(s)
    /\ SubSeq(s, Len(s) - Len(suffix) + 1, Len(s)) = suffix

\* positions of the one-character separator c in s
SepPositions(s, c) == {i \in 1..Len(s) : Char(s, i) = c}

Max(S) == CHOOSE x \in S : \A y \in S : y <= x
Min(S) == CHOOSE x \in S : \A y \in S : x <= y

\* s.split(c)[-1]: the text after the last c, or s when c does not occur
SplitLast(s, c) ==
    IF SepPositions(s, c) = {} THEN s
    ELSE SubSeq(s, Max(SepPositions(s, c)) + 1, Len(s))

\* s.split(c, 1)[-1]: the text after the first c, or s when c does not occur
SplitFirstRest(s, c) ==
    IF SepPositions(s, c) = {} THEN s
    ELSE SubSeq(s, Min(SepPositions(s, c)) + 1, Len(s))

-----------------------------------------------------------------------------
(* Role classification                                                      *)

BalanceSheet == "Balance Sheet"
IncomeStatement == "Income Statement"
ComprehensiveIncome == "Comprehensive Income"
CashFlow == "Cash Flow"
StockholdersEquity == "Stockholders Equity"

STATEMENT_RULES == <<
    [name |-> BalanceSheet,
     include |-> <<"balancesheet", "balance_sheet",
                   "financialposition", "financial_position",
                   "financialcondition", "financial_condition",
                   "consolidatedbalance", "statementoffinancialposition">>,
     exclude |-> <<"parenthetical", "detail", "policy", "note">>],
    [name |-> IncomeStatement,
     include |-> <<"incomestatement", "income_statement",
                   "statementsofincome", "statementsofoperations",
                   "statementofincome", "statementofoperations",
                   "statementofearnings", "statementsofearnings",
                   "consolidatedoperations", "consolidatedincome",
                   "consolidatedearnings",
                   "profitandloss", "profit_and_loss",
                   "resultsofoperations",
                   "revenueexpense", "revenuecostsandexpenses">>,
     exclude |-> <<"parenthetical", "comprehensive", "detail", "policy",
                   "note">>],
    [name |-> ComprehensiveIncome,
     include |-> <<"comprehensiveincome", "comprehensive_income",
                   "othercomprehensive">>,
     exclude |-> <<"parenthetical", "detail", "policy", "note">>],
    [name |-> CashFlow,
     include |-> <<"cashflow", "cash_flow",
                   "statementofcashflows", "statementsofcashflows",
                   "consolidatedcashflows", "consolidatedstatementsofcash">>,
     exclude |-> <<"parenthetical", "detail", "policy", "note",
                   "supplement", "disclosure">>],
    [name |-> StockholdersEquity,
     include |-> <<"stockholdersequity", "stockholders_equity",
                   "shareholdersequity", "shareholders_equity",
                   "changesinequity", "changes_in_equity",
                   "statementofequity", "statementsofequity">>,
     exclude |-> <<"parenthetical", "detail", "policy", "note">>]
>>

\* role_uri.lower().replace(" ", "").replace("-", "")
Normalize(uri) == StrRemove(StrRemove(StrLower(uri), " "), "-")

\* any(kw in normalized for kw in keywords)
AnyIn(keywords, normalized) ==
    \E k \in DOMAIN keywords : StrContains(normalized, keywords[k])

\* the for loop of classify_role from rule number i on
RECURSIVE ClassifyFrom(_, _, _)
ClassifyFrom(rs, normalized, i) ==
    IF i > Len(rs) THEN None
    ELSE LET has_include == AnyIn(rs[i].include, normalized) IN
         IF AnyIn(rs[i].exclude, normalized) /\ has_include
         THEN ClassifyFrom(rs, normalized, i + 1)
         ELSE IF has_include THEN rs[i].name
         ELSE ClassifyFrom(rs, normalized, i + 1)

\* the loop of classify_role without the exclude check
RECURSIVE ClassifyIncludeOnly(_, _, _)
ClassifyIncludeOnly(rs, normalized, i) ==
    IF i > Len(rs) THEN None
    ELSE IF AnyIn(rs[i].include, normalized) THEN rs[i].name
    ELSE ClassifyIncludeOnly(rs, normalized, i + 1)

\* classify_role without the exclude check
classify_role_include_only(rs, uri) == ClassifyIncludeOnly(rs, Normalize(uri), 1)

\* the loop of classify_role with "return None" in place of "continue"
RECURSIVE ClassifyStopAtExclude(_, _, _)
ClassifyStopAtExclude(rs, normalized, i) ==
    IF i > Len(rs) THEN None
    ELSE LET has_include == AnyIn(rs[i].include, normalized) IN
         IF AnyIn(rs[i].exclude, normalized) /\ has_include THEN None
         ELSE IF has_include THEN rs[i].name
         ELSE ClassifyStopAtExclude(rs, normalized, i + 1)

\* classify_role in which an excluded rule ends the evaluation
classify_role_stop_at_exclude(rs, uri) ==
    ClassifyStopAtExclude(rs, Normalize(uri), 1)

\* classify_role, reading the rule table rs as it is at the call
classify_role(rs, uri) == ClassifyFrom(rs, Normalize(uri), 1)

-----------------------------------------------------------------------------
(* Numeric text: what str.strip, str.replace(",", "") and float() do        *)

\* U+2014 (the em dash) is written "~" in this module's texts.
EmDash == "~"
Digits == "0123456789"

\* the value of each digit character
DigitValues == [d \in {Char(Digits, i) : i \in 1..10} |->
                   (CHOOSE i \in 1..10 : Char(Digits, i) = d) - 1]

IsDigit(c) == c \in DOMAIN DigitValues
DigitVal(c) == DigitValues[c]

\* str.strip(): leading and trailing blanks removed
RECURSIVE StrLStrip(_)
StrLStrip(s) ==
    IF Len(s) > 0 /\ Char(s, 1) = " " THEN StrLStrip(SubSeq(s, 2, Len(s)))
    ELSE s

RECURSIVE StrRStrip(_)
StrRStrip(s) ==
    IF Len(s) > 0 /\ Char(s, Len(s)) = " "
    THEN StrRStrip(SubSeq(s, 1, Len(s) - 1))
    ELSE s

StrStrip(s) == StrRStrip(StrLStrip(s))

AllDigits(s) == Len(s) > 0 /\ \A i \in 1..Len(s) : IsDigit(Char(s, i))

RECURSIVE DigitsVal(_)
DigitsVal(s) ==
    IF Len(s) = 0 THEN 0
    ELSE 10 * DigitsVal(SubSeq(s, 1, Len(s) - 1)) + DigitVal(Char(s, Len(s)))

\* float(s) returns (does not raise ValueError): blanks around, an optional
\* minus sign, then digits only. (The alphabet has no "+", ".", "_", "e".)
FloatParses(s) ==
    LET t == StrStrip(s) IN
    IF Len(t) > 0 /\ Char(t, 1) = "-"
    THEN AllDigits(SubSeq(t, 2, Len(t)))
    ELSE AllDigits(t)

\* float(s) where it returns
FloatOf(s) ==
    LET t == StrStrip(s) IN
    IF Char(t, 1) = "-" THEN 0 - DigitsVal(SubSeq(t, 2, Len(t)))
    ELSE DigitsVal(t)

-----------------------------------------------------------------------------
(* The instance document and parse_instance                                 *)
(*                                                                          *)
(* A context element: [id, segmented, period, date]; id "" is a missing id  *)
(* attribute; segmented is "entity has a segment child"; period is          *)
(* "instant", "duration" (startDate and endDate), "start_only", "empty"     *)
(* (a period element with no date child) or "none" (no period element).     *)
(* An element: [ns, tag, name, contextRef, text, sign, scale]; ns is "ix",  *)
(* "link", "xlink", "taxonomy" (any other namespace) or "" (no namespace);  *)
(* name, contextRef, sign and scale are "" when the attribute is absent;    *)
(* text is the element's text, "" for an empty element.                     *)

\* the exception that leaves the contexts loop at context c, if any
ContextRaises(c) ==
    IF c.segmented THEN "none"
    ELSE IF c.id = "" THEN "KeyError"
    ELSE IF c.period = "none" THEN "AttributeError"
    ELSE "none"

\* ContextStored without the skip of segmented contexts
ContextStoredWithSegments(c) == c.period \in {"instant", "duration"}

\* whether the contexts loop stores a date for context c
ContextStored(c) ==
    /\ ~c.segmented
    /\ c.period \in {"instant", "duration"}

\* the exception raised by the contexts loop: that of the first such context
ContextsError(contexts) ==
    IF \E i \in DOMAIN contexts : ContextRaises(contexts[i]) # "none"
    THEN ContextRaises(contexts[Min({i \in DOMAIN contexts :
                                        ContextRaises(contexts[i]) # "none"})])
    ELSE "none"

\* context_map after the contexts loop: a later context with the same id
\* overwrites an earlier one
ContextMapIds(contexts) ==
    {contexts[i].id : i \in {j \in DOMAIN contexts : ContextStored(contexts[j])}}

ContextMap(contexts) ==
    [id \in ContextMapIds(contexts) |->
        contexts[Max({i \in DOMAIN contexts :
                        ContextStored(contexts[i]) /\ contexts[i].id = id})].date]

\* the inline branch (ix:nonFraction, ix:nonNumeric) for one element:
\* [ok, concept, value]; ok FALSE is "continue" or a caught exception
InlineFact(e) ==
    LET text_val == StrRemove(StrStrip(e.text), ",")
        sign == IF e.sign = "-" THEN 0 - 1 ELSE 1
    IN  IF e.name = "" \/ text_val = "" \/ ~FloatParses(text_val)
        THEN [ok |-> FALSE, concept |-> "", value |-> 0]
        ELSE [ok |-> TRUE,
              concept |-> SplitLast(e.name, ":"),
              value |-> FloatOf(text_val) * sign]

\* the standard branch for one element: float(elem.text); the text of an
\* empty element is None and float(None) raises TypeError, which is caught
StandardFact(e) ==
    IF e.text = "" \/ ~FloatParses(e.text)
    THEN [ok |-> FALSE, concept |-> "", value |-> 0]
    ELSE [ok |-> TRUE, concept |-> e.tag, value |-> FloatOf(e.text)]

\* ElementFact with an unparsable or empty text stored as zero
ElementFactZero(e) ==
    IF e.ns = "ix" /\ e.tag \in {"nonFraction", "nonNumeric"}
    THEN IF InlineFact(e).ok THEN InlineFact(e)
         ELSE [ok |-> TRUE, concept |-> SplitLast(e.name, ":"), value |-> 0]
    ELSE IF e.ns \notin {"", "ix", "link", "xlink"}
    THEN IF StandardFact(e).ok THEN StandardFact(e)
         ELSE [ok |-> TRUE, concept |-> e.tag, value |-> 0]
    ELSE [ok |-> FALSE, concept |-> "", value |-> 0]

\* the body of the try block for one element with a resolvable contextRef
ElementFact(e) ==
    IF e.ns = "ix" /\ e.tag \in {"nonFraction", "nonNumeric"}
    THEN InlineFact(e)
    ELSE IF e.ns \notin {"", "ix", "link", "xlink"}
    THEN StandardFact(e)
    ELSE [ok |-> FALSE, concept |-> "", value |-> 0]

\* whether the facts loop appends a fact for element e
ElementKept(e, context_map) ==
    /\ e.contextRef # ""
    /\ e.contextRef \in DOMAIN context_map
    /\ ElementFact(e).ok

\* ExtractFacts without the try block: the first element whose concept or
\* value cannot be resolved ends the loop
RECURSIVE ExtractFactsStopAtFailure(_, _, _)
ExtractFactsStopAtFailure(elems, context_map, i) ==
    IF i > Len(elems) THEN <<>>
    ELSE LET fact == ElementFact(elems[i]) IN
         IF ElementKept(elems[i], context_map)
         THEN <<[concept |-> fact.concept,
                 date |-> context_map[elems[i].contextRef],
                 value |-> fact.value,
                 elem |-> i]>>
              \o ExtractFactsStopAtFailure(elems, context_map, i + 1)
         ELSE IF elems[i].contextRef \in DOMAIN context_map THEN <<>>
         ELSE ExtractFactsStopAtFailure(elems, context_map, i + 1)

\* the facts loop from element i on. Each row carries elem, the position of
\* the element it was read from (not a column of facts_df).
RECURSIVE ExtractFacts(_, _, _)
ExtractFacts(elems, context_map, i) ==
    IF i > Len(elems) THEN <<>>
    ELSE LET fact == ElementFact(elems[i]) IN
         IF ElementKept(elems[i], context_map)
         THEN <<[concept |-> fact.concept,
                 date |-> context_map[elems[i].contextRef],
                 value |-> fact.value,
                 elem |-> i]>>
              \o ExtractFacts(elems, context_map, i + 1)
         ELSE ExtractFacts(elems, context_map, i + 1)

\* parse_instance on a fetched and parsed document: [error, facts]
ParseInstanceDoc(doc) ==
    IF ContextsError(doc.contexts) # "none"
    THEN [error |-> ContextsError(doc.contexts), facts |-> <<>>]
    ELSE [error |-> "none",
          facts |-> ExtractFacts(doc.elems, ContextMap(doc.contexts), 1)]

-----------------------------------------------------------------------------
(* The linkbase documents: parse_presentation and parse_calculation         *)
(*                                                                          *)
(* A presentation document is a sequence of presentationLink blocks         *)
(* [role, locs, arcs]; a loc is [label, href]; an arc is [from, to, order]. *)
(* A calculation document is a sequence of calculationLink blocks           *)
(* [role, hrefs], hrefs being the href of each loc in document order.       *)
(* An absent attribute is "".                                               *)

\* the depth at which Python raises RecursionError, scaled to the model
RecursionLimit == 6

\* extract_concept_from_href
extract_concept_from_href(href) ==
    LET anchor == SplitLast(href, "#") IN
    IF StrContains(anchor, "_") THEN SplitFirstRest(anchor, "_") ELSE anchor

\* label_map.get(label): the concept of the last loc with that label, None
\* when no loc with a label and an href has it
LabelGet(locs, label) ==
    LET hits == {i \in DOMAIN locs : /\ locs[i].label # ""
                                     /\ locs[i].href # ""
                                     /\ locs[i].label = label}
    IN  IF hits = {} THEN None
        ELSE extract_concept_from_href(locs[Max(hits)].href)

\* "if parent and child": the label resolves to a non-empty concept
Resolves(locs, label) == LabelGet(locs, label) \notin {None, ""}

\* the nodes appended to children[...] by the arcs loop, in document order
RECURSIVE ArcNodes(_, _, _)
ArcNodes(locs, arcs, i) ==
    IF i > Len(arcs) THEN <<>>
    ELSE IF Resolves(locs, arcs[i].from) /\ Resolves(locs, arcs[i].to)
         THEN <<[concept |-> LabelGet(locs, arcs[i].to),
                 order |-> arcs[i].order,
                 parent |-> LabelGet(locs, arcs[i].from)]>>
              \o ArcNodes(locs, arcs, i + 1)
    ELSE ArcNodes(locs, arcs, i + 1)

\* children[parent], [] when parent is no key
RECURSIVE ChildrenOf(_, _)
ChildrenOf(nodes, parent) ==
    IF nodes = <<>> THEN <<>>
    ELSE (IF Head(nodes).parent = parent THEN <<Head(nodes)>> ELSE <<>>)
             \o ChildrenOf(Tail(nodes), parent)

\* list(children.keys()): the parents in order of first appearance
RECURSIVE ParentKeys(_, _)
ParentKeys(nodes, seen) ==
    IF nodes = <<>> THEN <<>>
    ELSE IF Head(nodes).parent \in seen THEN ParentKeys(Tail(nodes), seen)
    ELSE <<Head(nodes).parent>>
             \o ParentKeys(Tail(nodes), seen \cup {Head(nodes).parent})

\* InsertByOrder for a sort that puts a node in front of the nodes of the
\* same order
RECURSIVE InsertBeforeEqual(_, _)
InsertBeforeEqual(sorted, n) ==
    IF sorted = <<>> THEN <<n>>
    ELSE IF Head(sorted).order < n.order
         THEN <<Head(sorted)>> \o InsertBeforeEqual(Tail(sorted), n)
    ELSE <<n>> \o sorted

\* sorted(nodes, key=order): stable, equal orders keep their list order
RECURSIVE InsertByOrder(_, _)
InsertByOrder(sorted, n) ==
    IF sorted = <<>> THEN <<n>>
    ELSE IF Head(sorted).order <= n.order
         THEN <<Head(sorted)>> \o InsertByOrder(Tail(sorted), n)
    ELSE <<n>> \o sorted

RECURSIVE SortByOrder(_)
SortByOrder(nodes) ==
    IF nodes = <<>> THEN <<>>
    ELSE InsertByOrder(SortByOrder(SubSeq(nodes, 1, Len(nodes) - 1)),
                       nodes[Len(nodes)])

\* walk(parent) at recursion depth depth: [ok, list]; ok FALSE is a
\* RecursionError, list the nodes appended to ordered
RECURSIVE Walk(_, _, _)
RECURSIVE WalkList(_, _, _, _)
Walk(nodes, parent, depth) ==
    IF depth > RecursionLimit THEN [ok |-> FALSE, list |-> <<>>]
    ELSE WalkList(nodes, SortByOrder(ChildrenOf(nodes, parent)), 1, depth)

WalkList(nodes, kids, k, depth) ==
    IF k > Len(kids) THEN [ok |-> TRUE, list |-> <<>>]
    ELSE LET sub == Walk(nodes, kids[k].concept, depth + 1) IN
         IF ~sub.ok THEN sub
         ELSE LET rest == WalkList(nodes, kids, k + 1, depth) IN
              [ok |-> rest.ok,
               list |-> IF rest.ok THEN <<kids[k]>> \o sub.list \o rest.list
                        ELSE <<>>]

\* roots = [p for p in children.keys() if p not in all_children]
RootsOf(nodes) ==
    SelectSeq(ParentKeys(nodes, {}),
              LAMBDA p : \A i \in DOMAIN nodes : nodes[i].concept # p)

\* "for root_node in roots: walk(root_node)" from root number k on
RECURSIVE WalkRoots(_, _, _)
WalkRoots(nodes, roots, k) ==
    IF k > Len(roots) THEN [ok |-> TRUE, list |-> <<>>]
    ELSE LET first == Walk(nodes, roots[k], 1) IN
         IF ~first.ok THEN first
         ELSE LET rest == WalkRoots(nodes, roots, k + 1) IN
              [ok |-> rest.ok,
               list |-> IF rest.ok THEN first.list \o rest.list ELSE <<>>]

\* the flattened list "ordered" of one presentationLink block
FlattenLink(link) ==
    LET nodes == ArcNodes(link.locs, link.arcs, 1)
    IN  WalkRoots(nodes, RootsOf(nodes), 1)

\* a dict with key k set to v
MapSet(m, k, v) ==
    [x \in DOMAIN m \cup {k} |-> IF x = k THEN v ELSE m[x]]

EmptyMap == [x \in {} |-> 0]

\* PresentationFrom for a loop that keeps the first list stored under a
\* statement name
RECURSIVE PresentationFromFirstWins(_, _, _, _)
PresentationFromFirstWins(rs, links, i, stmts) ==
    IF i > Len(links) THEN [error |-> "none", map |-> stmts]
    ELSE LET statement_name == classify_role(rs, links[i].role)
             ordered == FlattenLink(links[i])
         IN  IF statement_name = None
             THEN PresentationFromFirstWins(rs, links, i + 1, stmts)
             ELSE IF ~ordered.ok
             THEN [error |-> "RecursionError", map |-> EmptyMap]
             ELSE PresentationFromFirstWins(rs, links, i + 1,
                      IF statement_name \in DOMAIN stmts THEN stmts
                      ELSE MapSet(stmts, statement_name, ordered.list))

\* the presentationLink loop from block i on, statements being the dict so
\* far: [error, map]
RECURSIVE PresentationFrom(_, _, _, _)
PresentationFrom(rs, links, i, stmts) ==
    IF i > Len(links) THEN [error |-> "none", map |-> stmts]
    ELSE LET statement_name == classify_role(rs, links[i].role)
             ordered == FlattenLink(links[i])
         IN  IF statement_name = None
             THEN PresentationFrom(rs, links, i + 1, stmts)
             ELSE IF ~ordered.ok
             THEN [error |-> "RecursionError", map |-> EmptyMap]
             ELSE PresentationFrom(rs, links, i + 1,
                                   MapSet(stmts, statement_name, ordered.list))

\* parse_presentation on a fetched and parsed document
ParsePresentationDoc(rs, doc) == PresentationFrom(rs, doc, 1, EmptyMap)

\* the concepts one calculationLink block adds
LinkConcepts(link) ==
    {extract_concept_from_href(link.hrefs[i]) :
        i \in {j \in DOMAIN link.hrefs : link.hrefs[j] # ""}}

\* the calculationLink loop from block i on
RECURSIVE CalculationFrom(_, _, _, _)
CalculationFrom(rs, links, i, sc) ==
    IF i > Len(links) THEN sc
    ELSE LET statement == classify_role(rs, links[i].role)
             old == IF statement \in DOMAIN sc THEN sc[statement] ELSE {}
         IN  IF statement = None
             THEN CalculationFrom(rs, links, i + 1, sc)
             ELSE CalculationFrom(rs, links, i + 1,
                      MapSet(sc, statement, old \cup LinkConcepts(links[i])))

\* parse_calculation on a fetched and parsed document
ParseCalculationDoc(rs, doc) == CalculationFrom(rs, doc, 1, EmptyMap)

-----------------------------------------------------------------------------
(* merge_concept_maps                                                       *)

Range(q) == {q[i] : i \in DOMAIN q}

\* the orders in which iterating a Python set can yield its elements
SetOrders(S) == {q \in [1..Cardinality(S) -> S] : Range(q) = S}

\* pre_map.get(stmt, []) and cal_map.get(stmt, set())
PreArcs(pm, stmt) == IF stmt \in DOMAIN pm THEN pm[stmt] ELSE <<>>
CalConcepts(cm, stmt) == IF stmt \in DOMAIN cm THEN cm[stmt] ELSE {}

\* the calculation concepts the inner loop appends for stmt
MissingConcepts(pm, cm, stmt) ==
    CalConcepts(cm, stmt) \ {PreArcs(pm, stmt)[i].concept :
                                i \in DOMAIN PreArcs(pm, stmt)}

\* MergedArcs with the calculation concepts put in front of pre_arcs
MergedArcsCalFirst(pm, cm, stmt, iter) ==
    LET pre_arcs == PreArcs(pm, stmt)
        order_counter == Len(pre_arcs) + 1
    IN  [k \in 1..Len(iter) |->
            [concept |-> iter[k],
             order |-> order_counter + k - 1,
             parent |-> None]] \o pre_arcs

\* pre_arcs after the inner loop, the set having been iterated in the order
\* iter (restricted to the missing concepts)
MergedArcs(pm, cm, stmt, iter) ==
    LET pre_arcs == PreArcs(pm, stmt)
        order_counter == Len(pre_arcs) + 1
    IN  pre_arcs \o [k \in 1..Len(iter) |->
                        [concept |-> iter[k],
                         order |-> order_counter + k - 1,
                         parent |-> None]]

\* every way the sets of the statements in D can be iterated
RECURSIVE IterationOrders(_, _, _)
IterationOrders(pm, cm, D) ==
    IF D = {} THEN {EmptyMap}
    ELSE LET st == CHOOSE x \in D : TRUE IN
         {MapSet(f, st, q) : f \in IterationOrders(pm, cm, D \ {st}),
                             q \in SetOrders(MissingConcepts(pm, cm, st))}

\* merge_concept_maps with all_statements = set(pre_map.keys()) alone
merge_concept_maps_pre_only(pm, cm, iters) ==
    [stmt \in DOMAIN pm |-> MergedArcs(pm, cm, stmt, iters[stmt])]

\* merge_concept_maps, iters[stmt] being the iteration order of the missing
\* concepts of stmt
merge_concept_maps(pm, cm, iters) ==
    [stmt \in DOMAIN pm \cup DOMAIN cm |-> MergedArcs(pm, cm, stmt, iters[stmt])]

\* pre_map after the call: merged[stmt] is the list object pre_map[stmt]
\* itself, so the appends show in pre_map
PreMapAfterMerge(pm, mg) == [stmt \in DOMAIN pm |-> mg[stmt]]

-----------------------------------------------------------------------------
(* distribute_statements and the "All Facts" pivot                          *)

\* an absent cell (NaN in the pivot)
Blank == [present |-> FALSE, value |-> 0, elem |-> 0]

\* sort_index(axis=1) with the default ascending=True
RECURSIVE SortAsc(_)
SortAsc(S) ==
    IF S = {} THEN <<>> ELSE <<Min(S)>> \o SortAsc(S \ {Min(S)})

\* sort_index(axis=1, ascending=False) on a set of dates
RECURSIVE SortDesc(_)
SortDesc(S) ==
    IF S = {} THEN <<>> ELSE <<Max(S)>> \o SortDesc(S \ {Max(S)})

\* the sum of the values of the rows numbered in hits
RECURSIVE SumValues(_, _)
SumValues(rows, hits) ==
    IF hits = {} THEN 0
    ELSE rows[Min(hits)].value + SumValues(rows, hits \ {Min(hits)})

\* FirstOf with aggfunc="sum"
SumOf(rows, c, d) ==
    LET hits == {i \in DOMAIN rows : rows[i].concept = c /\ rows[i].date = d}
    IN  IF hits = {} THEN Blank
        ELSE [present |-> TRUE,
              value |-> SumValues(rows, hits),
              elem |-> rows[Min(hits)].elem]

\* aggfunc="first": the first row, in frame order, of the group (c, d)
FirstOf(rows, c, d) ==
    LET hits == {i \in DOMAIN rows : rows[i].concept = c /\ rows[i].date = d}
    IN  IF hits = {} THEN Blank
        ELSE [present |-> TRUE,
              value |-> rows[Min(hits)].value,
              elem |-> rows[Min(hits)].elem]

\* pivot_table(index="concept", columns="date", values="value",
\* aggfunc="first") of rows, as its cells
PivotCells(rows) ==
    [cd \in {rows[i].concept : i \in DOMAIN rows}
              \X {rows[i].date : i \in DOMAIN rows} |->
        FirstOf(rows, cd[1], cd[2])]

\* StatementTable with reindex(ordered_concepts, fill_value=0): a row for
\* every concept of the ordering and zero in every cell without a fact
StatementTableZeroFilled(fs, arcs) ==
    LET ordered_concepts == [i \in DOMAIN arcs |-> arcs[i].concept]
        subset == SelectSeq(fs, LAMBDA f : f.concept \in Range(ordered_concepts))
        dates == {subset[i].date : i \in DOMAIN subset}
    IN  [rows |-> ordered_concepts,
         cols |-> SortDesc(dates),
         cells |-> [cd \in Range(ordered_concepts) \X dates |->
                      IF FirstOf(subset, cd[1], cd[2]).present
                      THEN FirstOf(subset, cd[1], cd[2])
                      ELSE [present |-> TRUE, value |-> 0, elem |-> 0]]]

\* the table of one statement: pivot, reindex(existing), sort_index
StatementTable(fs, arcs) ==
    LET ordered_concepts == [i \in DOMAIN arcs |-> arcs[i].concept]
        subset == SelectSeq(fs, LAMBDA f : f.concept \in Range(ordered_concepts))
        index == {subset[i].concept : i \in DOMAIN subset}
    IN  [rows |-> SelectSeq(ordered_concepts, LAMBDA c : c \in index),
         cols |-> SortDesc({subset[i].date : i \in DOMAIN subset}),
         cells |-> PivotCells(subset)]

\* whether the statement gets a table ("if subset.empty: continue")
HasFacts(fs, arcs) ==
    \E i \in DOMAIN fs : \E j \in DOMAIN arcs : fs[i].concept = arcs[j].concept

\* distribute_statements where it returns
distribute_statements(fs, structure) ==
    [stmt \in {s \in DOMAIN structure : HasFacts(fs, structure[s])} |->
        StatementTable(fs, structure[stmt])]

\* facts_df["concept"] raises KeyError on the frame of an empty fact list,
\* which has no columns; the loop body runs only for a non-empty structure
DistributeRaises(fs, structure) == fs = <<>> /\ DOMAIN structure # {}

\* code point order of the characters of concept names
CodePoints == "#-0123456789:ABCDEFGHIJKLMNOPQRSTUVWXYZ_abcdefghijklmnopqrstuvwxyz"
Ranks == [c \in {Char(CodePoints, i) : i \in 1..Len(CodePoints)} |->
             CHOOSE i \in 1..Len(CodePoints) : Char(CodePoints, i) = c]
Rank(c) == IF c \in DOMAIN Ranks THEN Ranks[c] ELSE 0

\* a < b for Python strings
RECURSIVE StrLess(_, _)
StrLess(a, b) ==
    IF Len(b) = 0 THEN FALSE
    ELSE IF Len(a) = 0 THEN TRUE
    ELSE IF Char(a, 1) = Char(b, 1)
         THEN StrLess(SubSeq(a, 2, Len(a)), SubSeq(b, 2, Len(b)))
    ELSE Rank(Char(a, 1)) < Rank(Char(b, 1))

\* the sorted index of a pivot table
RECURSIVE SortStrings(_)
SortStrings(S) ==
    IF S = {} THEN <<>>
    ELSE LET least == CHOOSE x \in S : \A y \in S \ {x} : StrLess(x, y)
         IN  <<least>> \o SortStrings(S \ {least})

\* AllFactsTable with aggfunc="sum"
AllFactsTableSummed(fs) ==
    [rows |-> SortStrings({fs[i].concept : i \in DOMAIN fs}),
     cols |-> SortDesc({fs[i].date : i \in DOMAIN fs}),
     cells |-> [cd \in {fs[i].concept : i \in DOMAIN fs}
                          \X {fs[i].date : i \in DOMAIN fs} |->
                   SumOf(fs, cd[1], cd[2])]]

\* the "All Facts" sheet: the pivot of every fact, columns descending
AllFactsTable(fs) ==
    [rows |-> SortStrings({fs[i].concept : i \in DOMAIN fs}),
     cols |-> SortDesc({fs[i].date : i \in DOMAIN fs}),
     cells |-> PivotCells(fs)]

sheet_order == <<BalanceSheet, IncomeStatement, ComprehensiveIncome,
                 CashFlow, StockholdersEquity>>

\* the workbook written into the BytesIO: the master sheet, then the
\* statement sheets that exist, in sheet_order
Workbook(fs, stmts) ==
    [all_facts |-> AllFactsTable(fs),
     sheets |-> LET names == SelectSeq(sheet_order, LAMBDA n : n \in DOMAIN stmts)
                IN  [k \in DOMAIN names |->
                        [name |-> names[k], table |-> stmts[names[k]]]]]

-----------------------------------------------------------------------------
(* The filing on the server, and the steps of extract_excel_bytes           *)
(*                                                                          *)
(* remote = [url, names, net, instance, pre, cal, output_path]: the filing  *)
(* URL given to the call, the file names of the filing index, how each of   *)
(* the four requests ends (net.index, net.instance, net.pre, net.cal: "ok", *)
(* "http_error" for an error status, "network_error" for a failed request,  *)
(* "malformed" for a body that is not JSON / not XML), the three documents  *)
(* as served, and whether parse_xbrl_to_excel was given an output_path.     *)

\* s.strip("/")
RECURSIVE StripSlashes(_)
StripSlashes(s) ==
    IF Len(s) > 0 /\ Char(s, 1) = "/" THEN StripSlashes(SubSeq(s, 2, Len(s)))
    ELSE IF Len(s) > 0 /\ Char(s, Len(s)) = "/"
         THEN StripSlashes(SubSeq(s, 1, Len(s) - 1))
    ELSE s

\* extract_ids_from_url raises IndexError unless the URL has parts[7]
UrlHasIds(url) == Cardinality(SepPositions(StripSlashes(url), "/")) + 1 >= 8

\* the exception a request and the parse of its body raise, "none" if none
FetchError(outcome) ==
    CASE outcome = "ok" -> "none"
      [] outcome = "http_error" -> "HTTPError"
      [] outcome = "network_error" -> "ConnectionError"
      [] outcome = "malformed" -> "ParseError"

\* find_file(files, suffix)
find_file(fs, suffix) ==
    LET hits == {i \in DOMAIN fs : StrEndsWith(StrLower(fs[i]), suffix)}
    IN  IF hits = {} THEN None ELSE fs[Min(hits)]

\* the instance_file loop of parse_instance
InstanceFile(fs) ==
    LET hits == {i \in DOMAIN fs : /\ StrEndsWith(StrLower(fs[i]), ".xml")
                                   /\ StrContains(StrLower(fs[i]), "_htm")}
    IN  IF hits = {} THEN None ELSE fs[Min(hits)]

\* InstanceFetchError with a missing instance file treated as a missing
\* linkbase file is
InstanceFetchErrorOptional(fs, outcome) ==
    IF InstanceFile(fs) = None THEN "none" ELSE FetchError(outcome)

\* parse_instance up to ET.fromstring: the exception raised, "none" if none
InstanceFetchError(fs, outcome) ==
    IF InstanceFile(fs) = None THEN "Exception" ELSE FetchError(outcome)

\* parse_presentation / parse_calculation up to ET.fromstring: a missing
\* file returns the empty map, a failed request or parse raises
LinkbaseFetchError(fs, suffix, outcome) ==
    IF find_file(fs, suffix) = None THEN "none" ELSE FetchError(outcome)

\* Raise with the exception caught and the workbook of what was produced
\* so far returned
RaiseReturningPartial(at, exc) ==
    /\ pc' = "failed"
    /\ error' = [at |-> at, exc |-> exc]
    /\ output' = <<Workbook(facts, statements)>>
    /\ UNCHANGED <<done, disk>>

\* an exception leaves extract_excel_bytes and parse_xbrl_to_excel: nothing
\* in either function catches it, so nothing is returned and nothing written
Raise(at, exc) ==
    /\ pc' = "failed"
    /\ error' = [at |-> at, exc |-> exc]
    /\ UNCHANGED <<done, output, disk>>

\* extract_ids_from_url and get_filing_index
GetFilingIndex ==
    /\ pc = "index"
    /\ IF ~UrlHasIds(remote.url)
       THEN Raise("extract_ids_from_url", "IndexError") /\ UNCHANGED files
       ELSE IF FetchError(remote.net.index) # "none"
       THEN /\ Raise("get_filing_index",
                     IF remote.net.index = "malformed" THEN "JSONDecodeError"
                     ELSE FetchError(remote.net.index))
            /\ UNCHANGED files
       ELSE /\ files' = remote.names
            /\ pc' = "instance"
            /\ done' = done \cup {"get_filing_index"}
            /\ UNCHANGED <<error, output, disk>>
    /\ UNCHANGED <<remote, facts, pre_map, cal_map, merged, statements,
                   role_uri, rules, calls>>

\* parse_instance
ParseInstance ==
    /\ pc = "instance"
    /\ LET fetch == InstanceFetchError(files, remote.net.instance)
           parsed == ParseInstanceDoc(remote.instance)
       IN  IF fetch # "none"
           THEN Raise("parse_instance", fetch) /\ UNCHANGED facts
           ELSE IF parsed.error # "none"
           THEN Raise("parse_instance", parsed.error) /\ UNCHANGED facts
           ELSE /\ facts' = parsed.facts
                /\ pc' = "presentation"
                /\ done' = done \cup {"parse_instance"}
                /\ UNCHANGED <<error, output, disk>>
    /\ UNCHANGED <<remote, files, pre_map, cal_map, merged, statements,
                   role_uri, rules, calls>>

\* parse_presentation
ParsePresentation ==
    /\ pc = "presentation"
    /\ LET fetch == LinkbaseFetchError(files, "_pre.xml", remote.net.pre)
           parsed == ParsePresentationDoc(rules, remote.pre)
       IN  IF find_file(files, "_pre.xml") = None
           THEN /\ pre_map' = EmptyMap
                /\ pc' = "calculation"
                /\ done' = done \cup {"parse_presentation"}
                /\ UNCHANGED <<error, output, disk>>
           ELSE IF fetch # "none"
           THEN Raise("parse_presentation", fetch) /\ UNCHANGED pre_map
           ELSE IF parsed.error # "none"
           THEN Raise("parse_presentation", parsed.error) /\ UNCHANGED pre_map
           ELSE /\ pre_map' = parsed.map
                /\ pc' = "calculation"
                /\ done' = done \cup {"parse_presentation"}
                /\ UNCHANGED <<error, output, disk>>
    /\ UNCHANGED <<remote, files, facts, cal_map, merged, statements,
                   role_uri, rules, calls>>

\* ParseCalculation started and not waited for: the caller goes on to the
\* merge while cal_map is still to be produced
ParseCalculationUnjoined ==
    /\ pc = "calculation"
    /\ pc' = "merge"
    /\ UNCHANGED <<remote, files, facts, pre_map, cal_map, merged, statements,
                   done, output, error, disk, role_uri, rules, calls>>

\* parse_calculation
ParseCalculation ==
    /\ pc = "calculation"
    /\ LET fetch == LinkbaseFetchError(files, "_cal.xml", remote.net.cal)
       IN  IF find_file(files, "_cal.xml") = None
           THEN /\ cal_map' = EmptyMap
                /\ pc' = "merge"
                /\ done' = done \cup {"parse_calculation"}
                /\ UNCHANGED <<error, output, disk>>
           ELSE IF fetch # "none"
           THEN Raise("parse_calculation", fetch) /\ UNCHANGED cal_map
           ELSE /\ cal_map' = ParseCalculationDoc(rules, remote.cal)
                /\ pc' = "merge"
                /\ done' = done \cup {"parse_calculation"}
                /\ UNCHANGED <<error, output, disk>>
    /\ UNCHANGED <<remote, files, facts, pre_map, merged, statements,
                   role_uri, rules, calls>>

\* merge_concept_maps; the iteration order of each set is not fixed
Merge ==
    /\ pc = "merge"
    /\ \E iters \in IterationOrders(pre_map, cal_map,
                                      DOMAIN pre_map \cup DOMAIN cal_map) :
          LET result == merge_concept_maps(pre_map, cal_map, iters)
          IN  /\ merged' = result
              /\ pre_map' = PreMapAfterMerge(pre_map, result)
    /\ pc' = "distribute"
    /\ done' = done \cup {"merge_concept_maps"}
    /\ UNCHANGED <<remote, files, facts, cal_map, statements, output, error,
                   disk, role_uri, rules, calls>>

\* distribute_statements
Distribute ==
    /\ pc = "distribute"
    /\ IF DistributeRaises(facts, merged)
       THEN Raise("distribute_statements", "KeyError") /\ UNCHANGED statements
       ELSE /\ statements' = distribute_statements(facts, merged)
            /\ pc' = "write"
            /\ done' = done \cup {"distribute_statements"}
            /\ UNCHANGED <<error, output, disk>>
    /\ UNCHANGED <<remote, files, facts, pre_map, cal_map, merged,
                   role_uri, rules, calls>>

\* step 4 of extract_excel_bytes: the workbook is written into a BytesIO
\* and returned; pivot_table raises KeyError on the frame of no facts
WriteExcel ==
    /\ pc = "write"
    /\ IF facts = <<>>
       THEN /\ Raise("extract_excel_bytes", "KeyError")
       ELSE /\ output' = <<Workbook(facts, statements)>>
            /\ pc' = "returned"
            /\ done' = done \cup {"write"}
            /\ UNCHANGED <<error, disk>>
    /\ UNCHANGED <<remote, files, facts, pre_map, cal_map, merged, statements,
                   role_uri, rules, calls>>

\* parse_xbrl_to_excel after extract_excel_bytes returned
WriteFile ==
    /\ pc = "returned"
    /\ disk' = IF remote.output_path THEN output ELSE disk
    /\ pc' = "done"
    /\ UNCHANGED <<remote, files, facts, pre_map, cal_map, merged, statements,
                   done, output, error, role_uri, rules, calls>>

\* ExcelExporter._sort_cols and _sort_df_cols on date columns:
\* sorted(columns, key=self._sort_key), whose key for a date text is
\* (1, its timestamp, the text); sorted() is ascending
sort_cols(dates) ==
    LET desc == SortDesc(dates)
    IN  [k \in 1..Len(desc) |-> desc[Len(desc) - k + 1]]

\* one statement sheet of ExcelExporter.write_data_sheets: a copy of the
\* table with its columns put in _sort_df_cols order (a statement table has
\* date columns only, and no "level" and "label" columns)
ExporterSheet(table) ==
    [rows |-> table.rows,
     cols |-> sort_cols(Range(table.cols)),
     cells |-> table.cells]

\* ExcelExporter.write_data_sheets on financials = {"facts": fs,
\* "statements": stmts}, order being the order of stmts.items()
write_data_sheets(fs, stmts, order) ==
    [all_facts |->
        [rows |-> SortStrings({fs[i].concept : i \in DOMAIN fs}),
         cols |-> sort_cols({fs[i].date : i \in DOMAIN fs}),
         cells |-> PivotCells(fs)],
     sheets |-> [k \in DOMAIN order |->
                    [name |-> order[k], table |-> ExporterSheet(stmts[order[k]])]]]

\* ExcelExporter.write_data_sheets called on the facts and the statement
\* tables of the run; the workbook it writes is kept in output. The
\* statements dict was filled in the iteration order of a set of names, so
\* its items come in any order; pivot_table raises KeyError on the frame of
\* no facts.
WriteDataSheets ==
    /\ pc = "write"
    /\ IF facts = <<>>
       THEN Raise("write_data_sheets", "KeyError")
       ELSE /\ \E order \in SetOrders(DOMAIN statements) :
                  output' = <<write_data_sheets(facts, statements, order)>>
            /\ pc' = "exported"
            /\ done' = done \cup {"write_data_sheets"}
            /\ UNCHANGED <<error, disk>>
    /\ UNCHANGED <<remote, files, facts, pre_map, cal_map, merged, statements,
                   role_uri, rules, calls>>

\* ClassifyCall with the rule that fired removed from the rule table
ClassifyCallConsuming ==
    /\ pc = "classify"
    /\ Len(calls) < MaxCalls
    /\ \E pass \in {"presentation", "calculation"} :
          calls' = Append(calls, [pass |-> pass,
                                  result |-> classify_role(rules, role_uri)])
    /\ rules' = SelectSeq(rules,
                          LAMBDA r : r.name # classify_role(rules, role_uri))
    /\ UNCHANGED <<remote, pc, files, facts, pre_map, cal_map, merged,
                   statements, done, output, error, disk, role_uri>>

\* one classify_role call, from the presentation or the calculation pass
ClassifyCall ==
    /\ pc = "classify"
    /\ Len(calls) < MaxCalls
    /\ \E pass \in {"presentation", "calculation"} :
          calls' = Append(calls, [pass |-> pass,
                                  result |-> classify_role(rules, role_uri)])
    /\ UNCHANGED <<remote, pc, files, facts, pre_map, cal_map, merged,
                   statements, done, output, error, disk, role_uri, rules>>

-----------------------------------------------------------------------------
(* Inputs                                                                   *)

StdElem(tag, ctx, text) ==
    [ns |-> "taxonomy", tag |-> tag, name |-> "", contextRef |-> ctx,
     text |-> text, sign |-> "", scale |-> ""]

IxElem(name, ctx, text, sign, scale) ==
    [ns |-> "ix", tag |-> "nonFraction", name |-> name, contextRef |-> ctx,
     text |-> text, sign |-> sign, scale |-> scale]

Ctx(id, segmented, period, date) ==
    [id |-> id, segmented |-> segmented, period |-> period, date |-> date]

Loc(label, href) == [label |-> label, href |-> href]
Arc(from, to, order) == [from |-> from, to |-> to, order |-> order]

SeqsUpTo(S, n) == UNION {[1..k -> S] : k \in 0..n}

GoodUrl == "https://www.sec.gov/Archives/edgar/data/320193/000032019324000123/"
ShortUrl == "https://www.sec.gov/cgi-bin/browse-edgar"

MainPage == "aapl-20240928.htm"
InstanceName == "aapl-20240928_htm.xml"
PreName == "aapl-20240928_pre.xml"
CalName == "aapl-20240928_cal.xml"

\* the filing indexes: the main page and any of the three XML files
NameLists ==
    {<<MainPage>> \o (IF i THEN <<InstanceName>> ELSE <<>>)
                  \o (IF p THEN <<PreName>> ELSE <<>>)
                  \o (IF c THEN <<CalName>> ELSE <<>>) :
        i \in BOOLEAN, p \in BOOLEAN, c \in BOOLEAN}

AllNames == <<MainPage, InstanceName, PreName, CalName>>

Outcomes == {"ok", "http_error", "network_error", "malformed"}

AllOk == [index |-> "ok", instance |-> "ok", pre |-> "ok", cal |-> "ok"]

\* two contexts dated alike, one consolidated and one segmented by a
\* dimension, and an Assets fact on each
DocSegmented ==
    [contexts |-> <<Ctx("c1", FALSE, "instant", 2), Ctx("c2", TRUE, "instant", 2)>>,
     elems |-> <<StdElem("Assets", "c1", "1000"), StdElem("Assets", "c2", "400")>>]

\* inline facts, with a duration context
DocInline ==
    [contexts |-> <<Ctx("c1", FALSE, "instant", 2), Ctx("d1", FALSE, "duration", 1)>>,
     elems |-> <<IxElem("us-gaap:Assets", "c1", "1,000", "", "3"),
                 IxElem("us-gaap:NetCashProvidedByOperatingActivities", "d1", "45", "-", ""),
                 IxElem("us-gaap:Liabilities", "c1", "-", "", ""),
                 StdElem("OtherAssets", "c1", "7"),
                 StdElem("OtherAssets", "d1", "9")>>]

\* no element has a resolvable context
DocNoFacts ==
    [contexts |-> <<Ctx("c1", FALSE, "empty", 0)>>,
     elems |-> <<StdElem("Assets", "c1", "1000"), StdElem("Assets", "c9", "5")>>]

\* a context without a period element
DocNoPeriod ==
    [contexts |-> <<Ctx("c1", FALSE, "instant", 2), Ctx("c2", FALSE, "none", 0)>>,
     elems |-> <<StdElem("Assets", "c1", "1000")>>]

\* a context without an id attribute
DocNoId ==
    [contexts |-> <<Ctx("c1", FALSE, "instant", 2), Ctx("", FALSE, "instant", 2)>>,
     elems |-> <<StdElem("Assets", "c1", "1000")>>]

RoleBalance == "http://www.apple.com/role/CONSOLIDATEDBALANCESHEETS"
RoleCashFlow == "http://www.apple.com/role/ConsolidatedStatementsOfCashFlows"
RoleCashFlowParenthetical ==
    "http://www.apple.com/role/StatementsOfCashFlowsParenthetical"
RoleNote == "http://www.apple.com/role/SegmentInformationDetails"

BalanceLocs ==
    <<Loc("loc_abstract", "us-gaap-2024.xsd#us-gaap_StatementOfFinancialPositionAbstract"),
      Loc("loc_assets", "us-gaap-2024.xsd#us-gaap_Assets"),
      Loc("loc_liabilities", "us-gaap-2024.xsd#us-gaap_Liabilities"),
      Loc("loc_cash", "us-gaap-2024.xsd#us-gaap_Cash")>>

PreDocForest ==
    <<[role |-> RoleBalance,
       locs |-> BalanceLocs,
       arcs |-> <<Arc("loc_abstract", "loc_liabilities", 2),
                  Arc("loc_abstract", "loc_assets", 1),
                  Arc("loc_assets", "loc_cash", 1)>>],
      [role |-> RoleCashFlowParenthetical,
       locs |-> <<Loc("loc_a", "us-gaap-2024.xsd#us-gaap_StatementOfCashFlowsAbstract"),
                  Loc("loc_b", "us-gaap-2024.xsd#us-gaap_Assets")>>,
       arcs |-> <<Arc("loc_a", "loc_b", 1)>>],
      [role |-> RoleNote, locs |-> <<>>, arcs |-> <<>>]>>

\* two top-level concepts, the first with two children declared against
\* their order numbers, the second with none
PreDocTwoRoots ==
    <<[role |-> RoleBalance,
       locs |-> <<Loc("loc_a", "us-gaap-2024.xsd#us-gaap_AssetsAbstract"),
                  Loc("loc_a1", "us-gaap-2024.xsd#us-gaap_AssetsCurrent"),
                  Loc("loc_a2", "us-gaap-2024.xsd#us-gaap_AssetsNoncurrent"),
                  Loc("loc_b", "us-gaap-2024.xsd#us-gaap_LiabilitiesAbstract")>>,
       arcs |-> <<Arc("loc_a", "loc_a2", 2),
                  Arc("loc_a", "loc_a1", 1)>>]>>

\* a cycle reachable from a root
PreDocCyclic ==
    <<[role |-> RoleBalance,
       locs |-> BalanceLocs,
       arcs |-> <<Arc("loc_abstract", "loc_assets", 1),
                  Arc("loc_assets", "loc_cash", 1),
                  Arc("loc_cash", "loc_assets", 1)>>]>>

CalDocTwo ==
    <<[role |-> RoleBalance,
       hrefs |-> <<"us-gaap-2024.xsd#us-gaap_Assets",
                   "us-gaap-2024.xsd#us-gaap_OtherAssets",
                   "aapl-20240928.xsd#aapl_Goodwill">>],
      [role |-> RoleCashFlow,
       hrefs |-> <<"us-gaap-2024.xsd#us-gaap_NetCashProvidedByOperatingActivities">>]>>

CalDocNone == <<[role |-> RoleNote, hrefs |-> <<"us-gaap-2024.xsd#us-gaap_Assets">>]>>

World(url, names, net, instance, pre, cal, output_path) ==
    [url |-> url, names |-> names, net |-> net, instance |-> instance,
     pre |-> pre, cal |-> cal, output_path |-> output_path]

\* The filings of the end-to-end runs: every index, every outcome of the
\* three document requests, with each document of the catalogue. A document
\* that is never read (its request is not made or fails) is the first of
\* its catalogue, as is every document after a bad URL or a failed index
\* request.
InstanceRead(names, ni) == InstanceFile(names) # None /\ ni = "ok"

WorldsOf(names, ni, np, nc) ==
    {World(GoodUrl, names,
           [index |-> "ok", instance |-> ni, pre |-> np, cal |-> nc],
           instance, pre, cal, op) :
        instance \in IF InstanceRead(names, ni)
                      THEN {DocSegmented, DocInline, DocNoFacts, DocNoPeriod,
                            DocNoId}
                      ELSE {DocSegmented},
        pre \in IF InstanceRead(names, ni) /\ find_file(names, "_pre.xml") # None
                    /\ np = "ok"
                 THEN {PreDocForest, PreDocTwoRoots, PreDocCyclic}
                 ELSE {PreDocForest},
        cal \in IF InstanceRead(names, ni) /\ find_file(names, "_cal.xml") # None
                    /\ nc = "ok"
                 THEN {CalDocTwo, CalDocNone} ELSE {CalDocTwo},
        op \in BOOLEAN}

Worlds ==
    UNION {WorldsOf(names, ni, np, nc) :
        names \in NameLists, ni \in Outcomes, np \in Outcomes, nc \in Outcomes}
    \cup {World(GoodUrl, AllNames, [AllOk EXCEPT !.index = ni],
                DocSegmented, PreDocForest, CalDocTwo, TRUE) :
            ni \in Outcomes}
    \cup {World(ShortUrl, AllNames, AllOk, DocSegmented, PreDocForest,
                CalDocTwo, TRUE)}

\* the state at the call of parse_xbrl_to_excel on the filing w
Start(w) ==
    /\ remote = w
    /\ pc = "index"
    /\ files = <<>>
    /\ facts = <<>>
    /\ pre_map = EmptyMap
    /\ cal_map = EmptyMap
    /\ merged = EmptyMap
    /\ statements = EmptyMap
    /\ done = {}
    /\ output = <<>>
    /\ error = [at |-> "", exc |-> "none"]
    /\ disk = <<>>
    /\ role_uri = ""
    /\ rules = STATEMENT_RULES
    /\ calls = <<>>

Init == \E w \in Worlds : Start(w)

Next ==
    \/ GetFilingIndex
    \/ ParseInstance
    \/ ParsePresentation
    \/ ParseCalculation
    \/ Merge
    \/ Distribute
    \/ WriteExcel
    \/ WriteFile

\* the end-to-end runs of parse_xbrl_to_excel
Spec == Init /\ [][Next]_vars

NextExport ==
    \/ GetFilingIndex
    \/ ParseInstance
    \/ ParsePresentation
    \/ ParseCalculation
    \/ Merge
    \/ Distribute
    \/ WriteDataSheets

\* the parsing steps followed by ExcelExporter.write_data_sheets
SpecExport == Init /\ [][NextExport]_vars

-----------------------------------------------------------------------------
(* Runs over generated instance documents                                   *)

\* the fixed part of a filing whose instance document is generated
FilingWith(instance) ==
    World(GoodUrl, AllNames, AllOk, instance, PreDocForest, CalDocTwo, TRUE)

\* contexts c1 and c2, each consolidated or segmented, instant or duration
ContextLists ==
    {<<k1, k2>> :
        k1 \in {Ctx("c1", FALSE, "instant", 1), Ctx("c1", FALSE, "instant", 2),
                Ctx("c1", TRUE, "instant", 2)},
        k2 \in {Ctx("c2", FALSE, "instant", 2), Ctx("c2", TRUE, "instant", 2),
                Ctx("c2", FALSE, "duration", 1)}}

\* facts of a Balance Sheet concept and of a concept of no statement
FactElems ==
    {StdElem("Assets", ctx, text) : ctx \in {"c1", "c2"}, text \in {"1000", "400"}}
    \cup {IxElem("us-gaap:Assets", "c1", "7", "", ""),
          StdElem("Revenues", "c1", "400"), StdElem("Revenues", "c2", "400")}

InstanceDocs ==
    {[contexts |-> cs, elems |-> es] :
        cs \in ContextLists, es \in SeqsUpTo(FactElems, MaxElems)}

InitInstance == \E d \in InstanceDocs : Start(FilingWith(d))

\* the end-to-end runs over every generated instance document
SpecInstance == InitInstance /\ [][Next]_vars

\* the characters of the generated numeric texts
TextAlphabet == {"0", "1", "-", "(", ")", ",", " ", EmDash}

RECURSIVE TextsUpTo(_)
TextsUpTo(n) ==
    IF n = 0 THEN {""}
    ELSE TextsUpTo(n - 1)
             \cup {t \o c : t \in TextsUpTo(n - 1), c \in TextAlphabet}

\* every text up to MaxTextLen characters, and the texts of the examples
NumericTexts == TextsUpTo(MaxTextLen) \cup {"45", "10", "(10)", "-10", "1,000"}

\* the element under test: either dialect, any text, sign and scale
TestElems ==
    {IxElem("us-gaap:Cash", "c1", text, sign, scale) :
        text \in NumericTexts, sign \in {"", "-"}, scale \in {"", "3"}}
    \cup {StdElem("Cash", "c1", text) : text \in NumericTexts}

\* the element under test between two well-formed facts
ValueDoc(e) ==
    [contexts |-> <<Ctx("c1", FALSE, "instant", 2)>>,
     elems |-> <<StdElem("Assets", "c1", "1000"), e,
                 IxElem("us-gaap:Liabilities", "c1", "400", "", "")>>]

InitValue == \E e \in TestElems : Start(FilingWith(ValueDoc(e)))

NextValue ==
    \/ GetFilingIndex
    \/ ParseInstance

\* parse_instance over every element under test
SpecValue == InitValue /\ [][NextValue]_vars

-----------------------------------------------------------------------------
(* Runs over one concept named in the instance and in the linkbase          *)

\* namespace prefixes and local names of concepts; "_" is allowed in both
ConceptPrefixes == {"us-gaap", "aapl", "ifrs-full", "my_co"}
ConceptNames == {"Assets", "Revenue", "Mac_Revenue"}

\* a filing in which the concept prefix:name has one fact, inline or
\* standard, and is a child of the balance sheet role's root, its loc
\* pointing at the fragment prefix_name
ConceptFiling(prefix, name, inline) ==
    World(GoodUrl, <<MainPage, InstanceName, PreName>>, AllOk,
          [contexts |-> <<Ctx("c1", FALSE, "instant", 2)>>,
           elems |-> <<IF inline
                       THEN IxElem(prefix \o ":" \o name, "c1", "10", "", "")
                       ELSE StdElem(name, "c1", "10")>>],
          <<[role |-> RoleBalance,
             locs |-> <<Loc("loc_root", "us-gaap-2024.xsd#us-gaap_StatementOfFinancialPositionAbstract"),
                        Loc("loc_concept", "taxonomy.xsd#" \o prefix \o "_" \o name)>>,
             arcs |-> <<Arc("loc_root", "loc_concept", 1)>>]>>,
          CalDocNone, TRUE)

InitResolve ==
    \E prefix \in ConceptPrefixes, name \in ConceptNames, inline \in BOOLEAN :
        Start(ConceptFiling(prefix, name, inline))

\* the end-to-end runs over every such filing
SpecResolve == InitResolve /\ [][Next]_vars

-----------------------------------------------------------------------------
(* Runs over generated presentation arcs                                    *)

\* arcs of the balance sheet role: the root's children with order 1 or 2,
\* and Assets also as a child of Liabilities
ArcChoices ==
    {Arc("loc_abstract", to, order) :
        to \in {"loc_assets", "loc_liabilities", "loc_cash"}, order \in {1, 2}}
    \cup {Arc("loc_liabilities", "loc_assets", 1)}

\* a filing whose presentation linkbase has the one role block with arcs
ArcsFiling(arcs) ==
    World(GoodUrl, <<MainPage, InstanceName, PreName>>, AllOk, DocSegmented,
          <<[role |-> RoleBalance, locs |-> BalanceLocs, arcs |-> arcs]>>,
          CalDocNone, TRUE)

InitArcs == \E arcs \in SeqsUpTo(ArcChoices, MaxArcs) : Start(ArcsFiling(arcs))

\* the end-to-end runs over every generated arc list
SpecArcs == InitArcs /\ [][Next]_vars

-----------------------------------------------------------------------------
(* Runs over generated presentationLink blocks                              *)

RoleFinancialPosition ==
    "http://www.apple.com/role/StatementOfFinancialPosition"

\* role blocks: three that classify to the balance sheet (one of them
\* without arcs), a cash flow block and a note block
BlockChoices ==
    {[role |-> RoleBalance, locs |-> BalanceLocs,
      arcs |-> <<Arc("loc_abstract", "loc_assets", 1)>>],
     [role |-> RoleFinancialPosition, locs |-> BalanceLocs,
      arcs |-> <<Arc("loc_abstract", "loc_liabilities", 1),
                 Arc("loc_abstract", "loc_cash", 2)>>],
     [role |-> RoleBalance, locs |-> BalanceLocs, arcs |-> <<>>],
     [role |-> RoleCashFlow, locs |-> BalanceLocs,
      arcs |-> <<Arc("loc_abstract", "loc_cash", 1)>>],
     [role |-> RoleNote, locs |-> BalanceLocs,
      arcs |-> <<Arc("loc_abstract", "loc_cash", 1)>>]}

\* a filing whose presentation linkbase is the list of role blocks
BlocksFiling(blocks) ==
    World(GoodUrl, <<MainPage, InstanceName, PreName>>, AllOk, DocSegmented,
          blocks, CalDocNone, TRUE)

InitBlocks ==
    \E blocks \in SeqsUpTo(BlockChoices, MaxBlocks) : Start(BlocksFiling(blocks))

\* the end-to-end runs over every generated list of role blocks
SpecBlocks == InitBlocks /\ [][Next]_vars

-----------------------------------------------------------------------------
(* Runs of classify_role                                                    *)

RoleBases ==
    {"ConsolidatedBalanceSheets", "CONSOLIDATED BALANCE SHEETS",
     "StatementOfFinancialPosition", "ConsolidatedStatementsOfOperations",
     "ConsolidatedStatementsOfIncome",
     "Consolidated-Statements-Of-Comprehensive-Income",
     "StatementsOfCashFlows", "ConsolidatedStatementsOfShareholdersEquity",
     "StatementsOfOperationsAndComprehensiveIncome",
     "BalanceSheetsAndStatementsOfCashFlows",
     "CashAndCashEquivalents", "DocumentAndEntityInformation", "IncomeTaxes"}

RoleSuffixes ==
    {"", "Parenthetical", " (Parenthetical)", "Details", "Policy", "Policies",
     "Notes", "Supplemental", "Disclosure"}

RoleUris ==
    {"http://www.apple.com/role/" \o b \o x : b \in RoleBases, x \in RoleSuffixes}
    \cup {RoleBalance, RoleCashFlow, RoleCashFlowParenthetical, RoleNote}

InitClassify ==
    /\ remote = FilingWith(DocSegmented)
    /\ pc = "classify"
    /\ files = <<>>
    /\ facts = <<>>
    /\ pre_map = EmptyMap
    /\ cal_map = EmptyMap
    /\ merged = EmptyMap
    /\ statements = EmptyMap
    /\ done = {}
    /\ output = <<>>
    /\ error = [at |-> "", exc |-> "none"]
    /\ disk = <<>>
    /\ role_uri \in RoleUris
    /\ rules = STATEMENT_RULES
    /\ calls = <<>>

NextClassify == ClassifyCall

\* repeated classification of one role identifier from either pass
SpecClassify == InitClassify /\ [][NextClassify]_vars

-----------------------------------------------------------------------------
(* Properties                                                               *)

AllSteps == {"get_filing_index", "parse_instance", "parse_presentation",
             "parse_calculation", "merge_concept_maps",
             "distribute_statements", "write"}

\* the contexts of the served instance document that carry the id ref
ContextsNamed(ref) ==
    {i \in DOMAIN remote.instance.contexts : remote.instance.contexts[i].id = ref}

\* the element a row or a cell was read from is bound to a segmented context
FromSegmented(elem) ==
    \E i \in ContextsNamed(remote.instance.elems[elem].contextRef) :
        remote.instance.contexts[i].segmented

\* the cells of a table that hold a value
PresentCells(table) == {cd \in DOMAIN table.cells : table.cells[cd].present}

\* every table of the run: the statement tables, and the All Facts sheet
\* once the workbook is written
TablesOfRun ==
    {statements[st] : st \in DOMAIN statements}
        \cup {output[k].all_facts : k \in DOMAIN output}

\* C1: a fact whose contextRef names a context with an entity/segment child
\* contributes no row to facts_df and no cell to any statement table or to
\* the All Facts table: every row and every cell was read from an element
\* bound to a non-segmented context.
C1_SegmentedFactsExcluded ==
    /\ \A i \in DOMAIN facts : ~FromSegmented(facts[i].elem)
    /\ \A t \in TablesOfRun :
          \A cd \in PresentCells(t) : ~FromSegmented(t.cells[cd].elem)

\* an element with a parsable value of a Balance Sheet concept is bound to
\* a segmented context, and the Balance Sheet table and workbook exist
C1_Witness ==
    /\ pc = "done"
    /\ BalanceSheet \in DOMAIN statements
    /\ \E i \in DOMAIN remote.instance.elems :
          /\ ElementFact(remote.instance.elems[i]).ok
          /\ ElementFact(remote.instance.elems[i]).concept = "Assets"
          /\ FromSegmented(i)

\* the elements of the served document that yield a fact of concept c
\* dated d, by the contexts that are not segmented
ElemsFor(c, d) ==
    LET doc == remote.instance
        dated == {k \in DOMAIN doc.contexts :
                     /\ ~doc.contexts[k].segmented
                     /\ doc.contexts[k].period \in {"instant", "duration"}
                     /\ doc.contexts[k].date = d}
    IN  {i \in DOMAIN doc.elems :
            /\ \E k \in dated : doc.contexts[k].id = doc.elems[i].contextRef
            /\ ElementFact(doc.elems[i]).ok
            /\ ElementFact(doc.elems[i]).concept = c}

\* C2: every cell of every statement table holds the value of the first
\* element, in document order, among the non-segmented facts of its concept
\* and date; values are never combined. Assets = 1000 on a consolidated
\* and 400 on a segmented context of the same date gives the cell 1000.
C2_FirstFactWins ==
    /\ \A st \in DOMAIN statements :
          \A cd \in PresentCells(statements[st]) :
             /\ ElemsFor(cd[1], cd[2]) # {}
             /\ statements[st].cells[cd].elem = Min(ElemsFor(cd[1], cd[2]))
             /\ statements[st].cells[cd].value =
                   ElementFact(remote.instance.elems[Min(ElemsFor(cd[1], cd[2]))]).value
    /\ (remote.instance = DocSegmented /\ "distribute_statements" \in done
           => /\ BalanceSheet \in DOMAIN statements
              /\ statements[BalanceSheet].cells[<<"Assets", 2>>].value = 1000)

\* two consolidated facts of one concept and date with different values,
\* and the table built from them
C2_Witness ==
    /\ "distribute_statements" \in done
    /\ BalanceSheet \in DOMAIN statements
    /\ \E d \in {1, 2} :
          \E i, j \in ElemsFor("Assets", d) :
             remote.instance.elems[i].text # remote.instance.elems[j].text

\* the mandatory instance document is not listed, not fetched or not XML
InstanceUnavailable ==
    InstanceFile(remote.names) = None \/ remote.net.instance # "ok"

\* C3: when the instance document cannot be found in the index, fetched or
\* parsed as XML, the call ends in an error and returns no workbook and no
\* statement tables, whatever the state of the two linkbases.
C3_InstanceFailureIsFatal ==
    InstanceUnavailable =>
        /\ pc \in {"index", "instance", "failed"}
        /\ (pc = "failed" => error.exc # "none")
        /\ output = <<>>
        /\ disk = <<>>
        /\ statements = EmptyMap
        /\ done \subseteq {"get_filing_index"}

\* the instance request fails on the network while both linkbases are
\* listed and would be served, and the call has failed in parse_instance
C3_Witness ==
    /\ pc = "failed"
    /\ error.at = "parse_instance"
    /\ remote.net.instance = "network_error"
    /\ find_file(remote.names, "_pre.xml") # None
    /\ find_file(remote.names, "_cal.xml") # None
    /\ remote.net.pre = "ok"
    /\ remote.net.cal = "ok"

\* C4 (as claimed): a failure to fetch or parse an optional linkbase never
\* aborts the extraction.
C4_LinkbaseFailureNeverAborts ==
    ~ /\ pc = "failed"
      /\ error.at \in {"parse_presentation", "parse_calculation"}
      /\ error.exc \in {"HTTPError", "ConnectionError", "ParseError"}

\* C5: the extraction is atomic for the caller: a workbook is returned only
\* when every step has returned, it is the complete workbook of the run's
\* facts and statement tables, the file is written only after that, and a
\* failed call returns nothing and writes nothing.
C5_Atomic ==
    /\ output # <<>> =>
          /\ done = AllSteps
          /\ pc \in {"returned", "done"}
          /\ output = <<Workbook(facts, statements)>>
          /\ \A st \in DOMAIN statements :
                \E k \in DOMAIN output[1].sheets :
                   output[1].sheets[k] = [name |-> st, table |-> statements[st]]
    /\ disk # <<>> => pc = "done" /\ remote.output_path /\ disk = output
    /\ pc = "failed" => output = <<>> /\ disk = <<>>
    /\ pc \in {"returned", "done"} => output # <<>>
    /\ pc = "done" /\ remote.output_path => disk = output

\* a run that went through every step and wrote a workbook with statement
\* sheets to output_path
C5_Witness ==
    /\ pc = "done"
    /\ done = AllSteps
    /\ disk # <<>>
    /\ disk[1].sheets # <<>>

\* the element under test of the value runs, and the fact read from it
TestElem == remote.instance.elems[2]
TestFacts == {i \in DOMAIN facts : facts[i].elem = 2}

\* C6: an element whose numeric text is the em dash, "-" or empty yields no
\* fact in either dialect, and the elements around it are still extracted.
C6_NonValuesDropped ==
    ("parse_instance" \in done /\ TestElem.text \in {EmDash, "-", ""}) =>
        /\ TestFacts = {}
        /\ Len(facts) = 2
        /\ facts[1] = [concept |-> "Assets", date |-> 2, value |-> 1000, elem |-> 1]
        /\ facts[2] = [concept |-> "Liabilities", date |-> 2, value |-> 400, elem |-> 3]

\* the inline element with the em dash as its text has been parsed over
C6_Witness ==
    /\ "parse_instance" \in done
    /\ TestElem.ns = "ix"
    /\ TestElem.text = EmDash
    /\ Len(facts) = 2

\* 10^n
RECURSIVE Pow10(_)
Pow10(n) == IF n = 0 THEN 1 ELSE 10 * Pow10(n - 1)

\* C7 (as claimed): an inline element with a scale attribute s resolves to
\* its parsed text times 10^s.
C7_ScaleApplied ==
    ("parse_instance" \in done /\ TestElem.ns = "ix" /\ TestElem.scale # ""
        /\ TestElem.sign = "" /\ AllDigits(TestElem.text)) =>
        \E i \in TestFacts :
            facts[i].value = DigitsVal(TestElem.text) * Pow10(DigitsVal(TestElem.scale))

\* C8 (as claimed): with the negative-sign marker the texts "(10)", "10"
\* and "-10" all resolve to -10.
C8_SignForced ==
    ("parse_instance" \in done /\ TestElem.ns = "ix" /\ TestElem.sign = "-"
        /\ TestElem.scale = "" /\ TestElem.text \in {"(10)", "10", "-10"}) =>
        \E i \in TestFacts : facts[i].value = 0 - 10

C10_ExcludedRuleNeverFires ==
    \A i \in DOMAIN calls :
        /\ \A k \in DOMAIN STATEMENT_RULES :
              AnyIn(STATEMENT_RULES[k].exclude, Normalize(role_uri))
                  => calls[i].result # STATEMENT_RULES[k].name
        /\ role_uri = RoleCashFlowParenthetical => calls[i].result = None

\* the parenthetical cash flow role, which holds the include keyword
\* "cashflow" and the exclude keyword "parenthetical", has been classified
C10_Witness ==
    /\ Len(calls) > 0
    /\ role_uri = RoleCashFlowParenthetical
    /\ StrContains(Normalize(role_uri), "cashflow")
    /\ StrContains(Normalize(role_uri), "parenthetical")

\* the rules that fire on a normalized identifier: an include keyword
\* occurs in it and no exclude keyword does
FiringRules(normalized) ==
    {k \in DOMAIN STATEMENT_RULES :
        /\ AnyIn(STATEMENT_RULES[k].include, normalized)
        /\ ~AnyIn(STATEMENT_RULES[k].exclude, normalized)}

\* C11: classify_role returns the name of the first rule, in the order
\* Balance Sheet, Income Statement, Comprehensive Income, Cash Flow,
\* Stockholders Equity, that has an include keyword and no exclude keyword
\* in the normalized identifier; a rule skipped for an exclude keyword does
\* not end the evaluation, and the result is None when no rule fires.
C11_FirstFiringRuleWins ==
    /\ [k \in DOMAIN STATEMENT_RULES |-> STATEMENT_RULES[k].name] =
          <<"Balance Sheet", "Income Statement", "Comprehensive Income",
            "Cash Flow", "Stockholders Equity">>
    /\ \A i \in DOMAIN calls :
          LET firing == FiringRules(Normalize(role_uri)) IN
          calls[i].result = IF firing = {} THEN None
                            ELSE STATEMENT_RULES[Min(firing)].name

\* a role on which an earlier rule is skipped for an exclude keyword and a
\* later rule fires has been classified
C11_Witness ==
    /\ Len(calls) > 0
    /\ LET normalized == Normalize(role_uri) IN
       \E k, j \in DOMAIN STATEMENT_RULES :
          /\ k < j
          /\ AnyIn(STATEMENT_RULES[k].include, normalized)
          /\ AnyIn(STATEMENT_RULES[k].exclude, normalized)
          /\ j \in FiringRules(normalized)
          /\ calls[1].result = STATEMENT_RULES[j].name

\* the concepts of a list of nodes
ConceptsOf(arcs) == [i \in DOMAIN arcs |-> arcs[i].concept]

\* C12 (as claimed): the flattened ordering of a classified role lists each
\* root before its descendants: the parent of every node stands in the list
\* before the node, and roots [A, B] with A's children A2 (order 2) and
\* A1 (order 1) give [A, A1, A2, B].
C12_PreOrderFromRoots ==
    (pc = "calculation" /\ find_file(files, "_pre.xml") # None) =>
        /\ \A st \in DOMAIN pre_map :
              \A i \in DOMAIN pre_map[st] :
                 \E j \in 1..(i - 1) :
                    pre_map[st][j].concept = pre_map[st][i].parent
        /\ remote.pre = PreDocTwoRoots =>
              /\ BalanceSheet \in DOMAIN pre_map
              /\ ConceptsOf(pre_map[BalanceSheet]) =
                    <<"AssetsAbstract", "AssetsCurrent", "AssetsNoncurrent",
                      "LiabilitiesAbstract">>

\* the concepts of a merged ordering that came from the presentation
\* linkbase, and those appended from the calculation linkbase
FromPresentation(arcs) == {arcs[k].concept : k \in {i \in DOMAIN arcs : arcs[i].parent # None}}
FromCalculationOnly(arcs) == {arcs[k].concept : k \in {i \in DOMAIN arcs : arcs[i].parent = None}}

\* the merge step keeps the presentation list of every statement as the
\* head of the merged list and appends only calculation concepts that the
\* presentation list does not hold
MergeKeepsPresentationFirst ==
    pc = "merge" =>
        \A st \in DOMAIN merged' :
            LET pre_arcs == PreArcs(pre_map, st)
                m == merged'[st]
            IN  /\ Len(m) >= Len(pre_arcs)
                /\ SubSeq(m, 1, Len(pre_arcs)) = pre_arcs
                /\ \A k \in (Len(pre_arcs) + 1)..Len(m) :
                      /\ m[k].parent = None
                      /\ m[k].concept \in CalConcepts(cal_map, st)
                      /\ m[k].concept \notin Range(ConceptsOf(pre_arcs))

\* in every statement table no calculation-only row stands above a
\* presentation row, and the presentation rows follow the merged ordering
TablesKeepPresentationFirst ==
    \A st \in DOMAIN statements :
        LET rows == statements[st].rows
            pres == FromPresentation(merged[st])
        IN  \A i, j \in DOMAIN rows :
               (i < j /\ rows[j] \in pres) =>
                   /\ rows[i] \in pres
                   /\ \E p, q \in DOMAIN merged[st] :
                         /\ p < q
                         /\ merged[st][p].concept = rows[i]
                         /\ merged[st][q].concept = rows[j]

\* C13: in every merged ordering and every statement table built from it,
\* no concept that comes only from the calculation linkbase stands before a
\* concept of the presentation linkbase, and the merge leaves the relative
\* order of the presentation concepts unchanged.
C13_CalcOnlyAfterPresentation ==
    /\ []TablesKeepPresentationFirst
    /\ [][MergeKeepsPresentationFirst]_vars

\* a Balance Sheet table with a presentation row and a calculation-only
\* row, from a merged ordering that holds several of each
C13_Witness ==
    /\ "distribute_statements" \in done
    /\ BalanceSheet \in DOMAIN statements
    /\ Cardinality(FromPresentation(merged[BalanceSheet])) >= 2
    /\ Cardinality(FromCalculationOnly(merged[BalanceSheet])) >= 2
    /\ \E i, j \in DOMAIN statements[BalanceSheet].rows :
          /\ statements[BalanceSheet].rows[i] \in FromPresentation(merged[BalanceSheet])
          /\ statements[BalanceSheet].rows[j] \in FromCalculationOnly(merged[BalanceSheet])

\* the hrefs of the locs of the served calculation linkbase, in document
\* order, from block i on
RECURSIVE DeclaredHrefs(_)
DeclaredHrefs(i) ==
    IF i > Len(remote.cal) THEN <<>>
    ELSE remote.cal[i].hrefs \o DeclaredHrefs(i + 1)

\* the place of the first declaration of concept c in that linkbase
DeclaredAt(c) ==
    Min({k \in DOMAIN DeclaredHrefs(1) :
            extract_concept_from_href(DeclaredHrefs(1)[k]) = c})

\* C14 (as claimed): the calculation concepts appended to a statement's
\* ordering stand in the order of their declaration in the calculation
\* linkbase, whatever the run.
C14_AppendedInDeclarationOrder ==
    "merge_concept_maps" \in done =>
        \A st \in DOMAIN merged :
            \A i, j \in DOMAIN merged[st] :
                (/\ i < j
                 /\ merged[st][i].parent = None
                 /\ merged[st][j].parent = None)
                    => DeclaredAt(merged[st][i].concept)
                           < DeclaredAt(merged[st][j].concept)

\* C15: in every statement table and in the All Facts table the date
\* columns are strictly descending, most recent first, so no date stands in
\* two columns; every date of a fact of the table has its column.
C15_ColumnsStrictlyDescending ==
    \A t \in TablesOfRun :
        /\ \A i, j \in DOMAIN t.cols : i < j => t.cols[i] > t.cols[j]
        /\ Range(t.cols) = {cd[2] : cd \in DOMAIN t.cells}

\* facts of two dates, the older one first in the document, in a Balance
\* Sheet table and an All Facts table of two columns
C15_Witness ==
    /\ pc = "done"
    /\ BalanceSheet \in DOMAIN statements
    /\ Len(statements[BalanceSheet].cols) = 2
    /\ Len(output[1].all_facts.cols) = 2
    /\ Len(facts) = 2
    /\ facts[1].date < facts[2].date

\* the concepts that have at least one extracted fact
ConceptsWithFacts == {facts[i].concept : i \in DOMAIN facts}

\* C16: the rows of every statement table are exactly the concepts of the
\* statement's merged ordering that have a fact, in the relative order of
\* the merged ordering; a concept without a fact has no row, and a cell
\* holds a value only where a fact of its concept and date exists.
C16_RowsAreConceptsWithFacts ==
    \A st \in DOMAIN statements :
        LET t == statements[st]
            order == ConceptsOf(merged[st])
        IN  /\ Range(t.rows) = Range(order) \cap ConceptsWithFacts
            /\ Len(t.rows) =
                  Cardinality({k \in DOMAIN order : order[k] \in ConceptsWithFacts})
            /\ \A i, j \in DOMAIN t.rows :
                  i < j => \E p, q \in DOMAIN order :
                              /\ p < q
                              /\ order[p] = t.rows[i]
                              /\ order[q] = t.rows[j]
            /\ \A c \in Range(t.rows) : \A k \in DOMAIN t.cols :
                  /\ <<c, t.cols[k]>> \in DOMAIN t.cells
                  /\ t.cells[<<c, t.cols[k]>>].present <=>
                        \E i \in DOMAIN facts : /\ facts[i].concept = c
                                                 /\ facts[i].date = t.cols[k]

\* a Balance Sheet table whose merged ordering holds concepts without a
\* fact, and which has a cell without a fact
C16_Witness ==
    /\ "distribute_statements" \in done
    /\ BalanceSheet \in DOMAIN statements
    /\ Len(statements[BalanceSheet].rows) >= 2
    /\ Range(ConceptsOf(merged[BalanceSheet])) \ ConceptsWithFacts # {}
    /\ \E cd \in DOMAIN statements[BalanceSheet].cells :
          ~statements[BalanceSheet].cells[cd].present

\* a statement has a table exactly when a fact matches its merged ordering
TableIffMatchingFact ==
    /\ DOMAIN statements \subseteq DOMAIN merged
    /\ "distribute_statements" \in done =>
          \A st \in DOMAIN merged :
              st \in DOMAIN statements <=>
                  Range(ConceptsOf(merged[st])) \cap ConceptsWithFacts # {}

\* C17 (as claimed): distribute_statements gives a statement a table
\* exactly when an extracted fact has a concept of its merged ordering, and
\* a statement without matching facts raises no error.
C17_TableIffMatchingFact ==
    /\ TableIffMatchingFact
    /\ ~(pc = "failed" /\ error.at = "distribute_statements")

\* C18 (as claimed): when the instance document was fetched and parsed but
\* yields no fact at all, the extraction does not fail in the assembly or
\* the export: it completes with an empty set of statement tables.
C18_ZeroFactsSucceeds ==
    ("parse_instance" \in done /\ facts = <<>>) =>
        /\ ~(pc = "failed" /\ error.at \in {"distribute_statements",
                                               "extract_excel_bytes"})
        /\ statements = EmptyMap

\* C19 (as claimed): a context without a period element, with a period
\* that has neither an instant nor an end date, or without an id never
\* raises an error out of parse_instance.
C19_MalformedContextNeverRaises ==
    ~ /\ pc = "failed"
      /\ error.at = "parse_instance"
      /\ error.exc \in {"AttributeError", "KeyError"}

\* the steps whose results the assembly reads
AssemblyInputs == {"parse_instance", "parse_presentation", "parse_calculation",
                   "merge_concept_maps"}

\* distribute_statements is entered only when those steps have returned
AssemblyAfterJoin ==
    (\/ pc = "distribute"
     \/ "distribute_statements" \in done
     \/ (pc = "failed" /\ error.at = "distribute_statements"))
        => AssemblyInputs \subseteq done

\* from the start of the assembly on, the fact list and the concept maps
\* are no longer written
AssemblyInputsFrozen ==
    pc \in {"distribute", "write", "returned"} =>
        UNCHANGED <<facts, pre_map, cal_map, merged>>

\* C20: distribute_statements starts only after parse_instance, both
\* linkbase steps and the merge have returned (a failed step ends the call
\* before the assembly), and the assembly never reads a fact list or a
\* concept map that is still being produced.
C20_AssemblyAfterAllInputs ==
    /\ []AssemblyAfterJoin
    /\ [][AssemblyInputsFrozen]_vars

\* the assembly is about to start on facts and on concept maps of both
\* linkbases
C20_Witness ==
    /\ pc = "distribute"
    /\ AssemblyInputs \subseteq done
    /\ facts # <<>>
    /\ DOMAIN pre_map # {}
    /\ DOMAIN cal_map # {}

\* the merge step writes neither of its arguments, and the assembly step
\* writes neither the fact list nor the merged structure
MapsLeftUnchanged ==
    /\ pc = "merge" => pre_map' = pre_map /\ cal_map' = cal_map
    /\ pc = "distribute" => facts' = facts /\ merged' = merged

\* C21 (as claimed): merge_concept_maps leaves pre_map and cal_map as they
\* were (the same per-statement lists with the same elements), and
\* distribute_statements leaves the fact list and the merged structure as
\* they were.
C21_MapsImmutable == [][MapsLeftUnchanged]_vars

NoPreFile == find_file(files, "_pre.xml") = None
NoCalFile == find_file(files, "_cal.xml") = None

\* a linkbase file that the index does not list gives the empty map and
\* no error
AbsentLinkbaseGivesEmptyMap ==
    /\ ("parse_presentation" \in done /\ NoPreFile /\ pc \in {"calculation", "merge"})
          => pre_map = EmptyMap
    /\ ("parse_calculation" \in done /\ NoCalFile) => cal_map = EmptyMap
    /\ ("get_filing_index" \in done /\ NoPreFile)
          => ~(pc = "failed" /\ error.at = "parse_presentation")
    /\ ("get_filing_index" \in done /\ NoCalFile)
          => ~(pc = "failed" /\ error.at = "parse_calculation")

\* the merge with one of the two files absent
MergeWithAbsentLinkbase ==
    pc = "merge" =>
        /\ NoCalFile => merged' = pre_map
        /\ NoPreFile =>
              /\ DOMAIN merged' = DOMAIN cal_map
              /\ \A st \in DOMAIN cal_map :
                    /\ Range(ConceptsOf(merged'[st])) = cal_map[st]
                    /\ Len(merged'[st]) = Cardinality(cal_map[st])
                    /\ \A k \in DOMAIN merged'[st] : merged'[st][k].parent = None

\* C22: a linkbase file absent from the filing index contributes nothing
\* and the run goes on: without a calculation file the merged ordering of
\* every statement is the presentation ordering unchanged, and without a
\* presentation file it consists of the calculation concepts alone.
C22_AbsentLinkbaseContributesNothing ==
    /\ []AbsentLinkbaseGivesEmptyMap
    /\ [][MergeWithAbsentLinkbase]_vars

\* a run without a presentation file whose Balance Sheet table is built
\* from the calculation concepts alone
C22_Witness ==
    /\ "distribute_statements" \in done
    /\ NoPreFile
    /\ ~NoCalFile
    /\ BalanceSheet \in DOMAIN statements
    /\ Len(merged[BalanceSheet]) = 3

\* the date columns of a table are in descending order
ColumnsDescending(table) ==
    \A i, j \in DOMAIN table.cols : i < j => table.cols[i] > table.cols[j]

\* C23 (as claimed): every workbook written, by extract_excel_bytes or by
\* ExcelExporter.write_data_sheets, has the date columns of each sheet in
\* descending order and the rows of each statement sheet in the order of
\* the statement table.
C23_ExportKeepsRendererContract ==
    \A w \in DOMAIN output :
        /\ ColumnsDescending(output[w].all_facts)
        /\ \A k \in DOMAIN output[w].sheets :
              /\ ColumnsDescending(output[w].sheets[k].table)
              /\ output[w].sheets[k].table.rows =
                    statements[output[w].sheets[k].name].rows

\* C24 (as claimed): the flattening of a role ends with a finite concept
\* list for every set of arcs, one with a cycle reachable from a root
\* included: the traversal never recurses without bound.
C24_FlatteningTerminates ==
    /\ ~ /\ pc = "failed"
          /\ error.at = "parse_presentation"
          /\ error.exc = "RecursionError"
    /\ ("parse_instance" \in done /\ remote.pre = PreDocCyclic /\ ~NoPreFile
            /\ remote.net.pre = "ok" /\ pc \notin {"presentation", "failed"})
          => BalanceSheet \in DOMAIN pre_map

\* the columns of facts_df: the rows without the position of their element
FrameOf(rows) ==
    [i \in DOMAIN rows |-> [concept |-> rows[i].concept,
                             date |-> rows[i].date,
                             value |-> rows[i].value]]

\* the served instance document with its element number k removed
WithoutElem(doc, k) ==
    [contexts |-> doc.contexts,
     elems |-> SubSeq(doc.elems, 1, k - 1) \o SubSeq(doc.elems, k + 1, Len(doc.elems))]

\* C25: an element whose concept or value cannot be resolved is skipped
\* alone: the facts before it are kept and the elements after it are read,
\* so the fact list is that of the same document without the element.
C25_FailureContainedToElement ==
    ("parse_instance" \in done /\ ~ElementFact(TestElem).ok) =>
        /\ FrameOf(facts) = FrameOf(ParseInstanceDoc(WithoutElem(remote.instance, 2)).facts)
        /\ \E i, j \in DOMAIN facts : facts[i].elem = 1 /\ facts[j].elem = 3

\* the inline element with the text "(10)", on which float() raises, has
\* been read between two facts that were both extracted
C25_Witness ==
    /\ "parse_instance" \in done
    /\ TestElem.ns = "ix"
    /\ TestElem.text = "(10)"
    /\ ~ElementFact(TestElem).ok
    /\ \E i, j \in DOMAIN facts : facts[i].elem = 1 /\ facts[j].elem = 3

\* C26 (as claimed): the name derived from a loc's fragment prefix_Concept
\* equals the name parse_instance derives for the same concept, also when
\* the prefix or the name holds the separator, so every fact of a concept
\* of the role joins the role's row for it.
C26_ConceptNamesAgree ==
    "parse_presentation" \in done =>
        /\ BalanceSheet \in DOMAIN pre_map
        /\ \A i \in DOMAIN facts :
              facts[i].concept \in Range(ConceptsOf(pre_map[BalanceSheet]))

\* the arcs of the served role block whose source is the concept p, as
\* [concept, order], in document order
ArcsFrom(p) ==
    LET link == remote.pre[1]
        from_p == SelectSeq(link.arcs,
                            LAMBDA a : LabelGet(link.locs, a.from) = p)
    IN  [k \in DOMAIN from_p |->
            [concept |-> LabelGet(link.locs, from_p[k].to),
             order |-> from_p[k].order]]

\* the nodes of the flattened ordering whose parent is p, as
\* [concept, order], in the order of the list
EmittedUnder(p) ==
    LET under == SelectSeq(pre_map[BalanceSheet], LAMBDA n : n.parent = p)
    IN  [k \in DOMAIN under |->
            [concept |-> under[k].concept, order |-> under[k].order]]

\* the parents that the traversal enters exactly once
VisitedOnce ==
    {p \in {pre_map[BalanceSheet][k].parent : k \in DOMAIN pre_map[BalanceSheet]} :
        Cardinality({k \in DOMAIN pre_map[BalanceSheet] :
                        pre_map[BalanceSheet][k].concept = p}) <= 1}

\* C27: the children of one parent are emitted in ascending order number,
\* and children of equal order number in the order of their arcs in the
\* document.
C27_ChildrenByOrderThenDocument ==
    (pc = "calculation" /\ BalanceSheet \in DOMAIN pre_map) =>
        \A p \in VisitedOnce :
            LET emitted == EmittedUnder(p) IN
            /\ \A i, j \in DOMAIN emitted :
                  i < j => emitted[i].order <= emitted[j].order
            /\ \A o \in {1, 2} :
                  SelectSeq(emitted, LAMBDA n : n.order = o)
                      = SelectSeq(ArcsFrom(p), LAMBDA n : n.order = o)

\* a root whose arcs declare two children of order 2 and then a child of
\* order 1 has been flattened
C27_Witness ==
    /\ pc = "calculation"
    /\ BalanceSheet \in DOMAIN pre_map
    /\ remote.pre[1].arcs = <<Arc("loc_abstract", "loc_liabilities", 2),
                               Arc("loc_abstract", "loc_assets", 2),
                               Arc("loc_abstract", "loc_cash", 1)>>
    /\ ConceptsOf(pre_map[BalanceSheet]) = <<"Cash", "Liabilities", "Assets">>

\* no element occurs twice in the sequence
NoRepeats(seq) == \A i, j \in DOMAIN seq : seq[i] = seq[j] => i = j

\* C28: a concept occurs at most once in a statement's merged ordering and
\* at most once as a row of the statement's table, also when it is the
\* target of arcs from two different parents.
C28_ConceptsOccurOnce ==
    /\ \A st \in DOMAIN merged : NoRepeats(ConceptsOf(merged[st]))
    /\ \A st \in DOMAIN statements : NoRepeats(statements[st].rows)

\* the positions of the served role blocks that classify to the statement
BlocksOf(st) ==
    {i \in DOMAIN remote.pre :
        classify_role(STATEMENT_RULES, remote.pre[i].role) = st}

LastOf(positions) == CHOOSE i \in positions : \A j \in positions : j <= i

\* C29: when several role blocks classify to the same statement name, the
\* list parse_presentation returns for the statement is the flattening of
\* the last such block alone; a statement has a list exactly when a block
\* classifies to it, and a last block without arcs gives the empty list.
C29_LastBlockWins ==
    pc = "calculation" =>
        \A st \in {STATEMENT_RULES[k].name : k \in DOMAIN STATEMENT_RULES} :
            /\ st \in DOMAIN pre_map <=> BlocksOf(st) # {}
            /\ st \in DOMAIN pre_map =>
                  pre_map[st] = FlattenLink(remote.pre[LastOf(BlocksOf(st))]).list

\* a block with arcs is followed by a block of the same statement without
\* arcs, and the list returned for the statement is empty
C29_Witness ==
    /\ pc = "calculation"
    /\ BalanceSheet \in DOMAIN pre_map
    /\ pre_map[BalanceSheet] = <<>>
    /\ \E i, j \in BlocksOf(BalanceSheet) :
          /\ i < j
          /\ j = LastOf(BlocksOf(BalanceSheet))
          /\ remote.pre[i].role = RoleFinancialPosition
          /\ FlattenLink(remote.pre[i]).list # <<>>
          /\ remote.pre[j].arcs = <<>>

\* C30: every statement table is a sub-table of the All Facts table of the
\* same run: a cell that holds a value in a statement table holds the same
\* value in the All Facts table; and the All Facts table has a row for
\* every concept with an extracted fact, in a statement or not.
C30_StatementsWithinAllFacts ==
    \A k \in DOMAIN output :
        LET all_facts == output[k].all_facts IN
        /\ \A st \in DOMAIN statements :
              \A cd \in PresentCells(statements[st]) :
                  /\ cd \in PresentCells(all_facts)
                  /\ all_facts.cells[cd] = statements[st].cells[cd]
        /\ Range(all_facts.rows) = ConceptsWithFacts

\* the workbook is written, a statement table holds a value, and the All
\* Facts table has a row for a concept that no statement table has
C30_Witness ==
    /\ pc = "done"
    /\ output # <<>>
    /\ \E st \in DOMAIN statements : PresentCells(statements[st]) # {}
    /\ \E c \in Range(output[1].all_facts.rows) :
          \A st \in DOMAIN statements : c \notin Range(statements[st].rows)

====
